---- MODULE Spec2Model ----
(***************************************************************************)
(* Model of the request-processing front of the API:                       *)
(*   - src/src/Utils/errorHandler/errorHandler.ts : handleError and its    *)
(*     helpers (lines 1-143) and the server start / SIGINT shutdown         *)
(*     (lines 145-169);                                                     *)
(*   - src/config/apiConfigMiddleware.config.ts : configureMiddleware.      *)
(*                                                                         *)
(* Strings are sequences of words, so that template interpolation and      *)
(* "contains" are real computations.  JavaScript values are tagged         *)
(* records of one uniform shape.                                           *)
(***************************************************************************)
EXTENDS Naturals, Integers, Sequences, FiniteSets, TLC

VARIABLES
    hPhase,      \* handleError invocation: "idle" | "returned" | "threw"
    hErr,        \* the error value handed to handleError
    hDiag,       \* the optional errorMessage argument (a string value or undefined)
    hBranch,     \* branch of handleError taken: "none" | "prisma" | "validation" | "server" | "unknown"
    hTrace,      \* side effects of the invocation, in order: log writes and response writes
    reqs,        \* pipeline: per request, its position in the middleware chain
    hits,        \* rate limiter store: per client identity, requests counted in the current window
    seen,        \* per client identity, the requests it has sent in its current window
    lastCheck,   \* last rate-limit decision: identity, ordinal within its window, outcome
    sigPc,       \* per delivered SIGINT, the position of its async handler
    listening,   \* the http server accepts new connections
    closing,     \* server.close() has been called and its 'close' event is pending
    connected,   \* the Prisma client holds its engine / database connection
    inflight,    \* number of accepted requests whose response is not finished
    exited,      \* process.exit(0) has run
    lateAccept   \* a request was accepted after a SIGINT handler had started

vars == <<hPhase, hErr, hDiag, hBranch, hTrace, reqs, hits, seen, lastCheck,
          sigPc, listening, closing, connected, inflight, exited, lateAccept>>

translatorVars == <<hPhase, hErr, hDiag, hBranch, hTrace>>
pipelineVars   == <<reqs, hits, seen, lastCheck>>
serverVars     == <<sigPc, listening, closing, connected, inflight, exited, lateAccept>>

----------------------------------------------------------------------------
(* JavaScript values *)

JsUndefined   == [tag |-> "undefined", str |-> <<>>, num |-> 0, arr |-> <<>>]
JsNull        == [tag |-> "null",      str |-> <<>>, num |-> 0, arr |-> <<>>]
JsString(s)   == [tag |-> "string",    str |-> s,    num |-> 0, arr |-> <<>>]
JsNumber(n)   == [tag |-> "number",    str |-> <<>>, num |-> n, arr |-> <<>>]
\* an array of strings, e.g. meta.target = ['email', 'name']
JsStrArray(a) == [tag |-> "strarray",  str |-> a,    num |-> 0, arr |-> <<>>]
\* an array of {field, message} objects
JsFieldArray(a) == [tag |-> "fieldarray", str |-> <<>>, num |-> 0, arr |-> a]
\* the plain object {message: m}
JsMessageObject(m) == [tag |-> "msgobject", str |-> m, num |-> 0, arr |-> <<>>]
\* an object graph that refers to itself
JsCircular    == [tag |-> "circular",  str |-> <<>>, num |-> 0, arr |-> <<>>]

\* JavaScript truthiness, as used by `a || b` and `c ? x : y`
Truthy(v) ==
    CASE v.tag = "undefined" -> FALSE
      [] v.tag = "null"      -> FALSE
      [] v.tag = "string"    -> v.str # <<>>
      [] v.tag = "number"    -> v.num # 0
      [] OTHER               -> TRUE

RECURSIVE Join(_, _)
\* Array.prototype.join(sep) on an array of strings
Join(a, sep) ==
    IF a = <<>> THEN <<>>
    ELSE IF Len(a) = 1 THEN <<a[1]>>
    ELSE <<a[1], sep>> \o Join(Tail(a), sep)

\* String(v), the conversion a template literal `${v}` applies
TemplateString(v) ==
    CASE v.tag = "string"    -> v.str
      [] v.tag = "strarray"  -> Join(v.str, ",")
      [] v.tag = "undefined" -> <<"undefined">>
      [] v.tag = "null"      -> <<"null">>
      [] v.tag = "number"    -> <<"<number>">>
      [] OTHER               -> <<"[object Object]">>

RECURSIVE StringifyFields(_)
StringifyFields(a) ==
    IF a = <<>> THEN <<>>
    ELSE <<"{field:", a[1].field, "message:", a[1].message, "}">> \o StringifyFields(Tail(a))

\* JSON.stringify(v) throws a TypeError on a circular structure
StringifyThrows(v) == v.tag = "circular"

\* JSON.stringify(v) for the values that do not make it throw
JsonStringify(v) ==
    CASE v.tag = "undefined"  -> JsUndefined
      [] v.tag = "null"       -> JsString(<<"null">>)
      [] v.tag = "string"     -> JsString(<<"\"">> \o v.str \o <<"\"">>)
      [] v.tag = "number"     -> JsString(<<"<number>">>)
      [] v.tag = "strarray"   -> JsString(<<"[">> \o Join(v.str, ",") \o <<"]">>)
      [] v.tag = "fieldarray" -> JsString(<<"[">> \o StringifyFields(v.arr) \o <<"]">>)
      [] v.tag = "msgobject"  -> JsString(<<"{message:">> \o v.str \o <<"}">>)
      [] OTHER                -> JsUndefined

Contains(s, w) == \E i \in 1..Len(s) : s[i] = w

----------------------------------------------------------------------------
(* Error values that can be handed to handleError *)

\* [cls]       what the value is: "PrismaKnown" (Prisma.PrismaClientKnownRequestError),
\*             "PrismaOther" (another error class of the Prisma client, an Error),
\*             "Error" (any other Error instance), "object" (plain object),
\*             "string", "number", "null"
\* [hasStatus] 'status' in value
\* [status]    value.status
\* [error]     value.error
\* [message]   value.message (Error instances)
\* [code]      value.code (PrismaKnown)
\* [hasMeta]   value.meta is defined; [target] value.meta.target
ErrorValue(cls, hasStatus, status, error, message, code, hasMeta, target) ==
    [cls |-> cls, hasStatus |-> hasStatus, status |-> status, error |-> error,
     message |-> message, code |-> code, hasMeta |-> hasMeta, target |-> target]

NoError == ErrorValue("none", FALSE, JsUndefined, JsUndefined, <<>>, "", FALSE, JsUndefined)

InstanceOfPrismaKnown(e) == e.cls = "PrismaKnown"
InstanceOfError(e)       == e.cls \in {"PrismaKnown", "PrismaOther", "Error"}
TypeofObject(e)          == e.cls \in {"PrismaKnown", "PrismaOther", "Error", "object", "null"}
IsNull(e)                == e.cls = "null"
StatusIn(e)              == e.hasStatus

\* text the persistence layer puts in its own error messages
RawStorageText == <<"Invalid prisma.user.create() invocation:", "Unique constraint failed on the fields: (email)">>

\* error.meta?.target
MetaTarget(e) == IF e.hasMeta THEN e.target ELSE JsUndefined

MsgForeignKey == <<"Erreur : violation de contrainte de clé étrangère. Veuillez vérifier les références.">>
MsgNotFound   == <<"Erreur : Une opération a échoué car elle dépend d'un ou plusieurs enregistrements requis mais introuvables.">>
MsgPrismaUnknown == <<"Erreur serveur : une erreur Prisma inconnue s'est produite.">>
MsgUnknown    == <<"Erreur serveur inconnue">>

MsgUnique(field) ==
    <<"Erreur : le champ">> \o TemplateString(field)
        \o <<"doit être unique. La valeur fournie est déjà utilisée.">>

\* getPrismaErrorMessage with P2025 answered like the other client errors
getPrismaErrorMessageNotFoundAs400(error) ==
    CASE error.code = "P2002" ->
            LET field == IF Truthy(MetaTarget(error)) THEN MetaTarget(error)
                         ELSE JsString(<<"inconnu">>)
            IN  [status |-> 400, message |-> MsgUnique(field)]
      [] error.code = "P2003" -> [status |-> 400, message |-> MsgForeignKey]
      [] error.code = "P2025" -> [status |-> 400, message |-> MsgNotFound]
      [] OTHER                -> [status |-> 500, message |-> MsgPrismaUnknown]

getPrismaErrorMessage(error) ==
    CASE error.code = "P2002" ->
            LET field == IF Truthy(MetaTarget(error)) THEN MetaTarget(error)
                         ELSE JsString(<<"inconnu">>)
            IN  [status |-> 400, message |-> MsgUnique(field)]
      [] error.code = "P2003" -> [status |-> 400, message |-> MsgForeignKey]
      [] error.code = "P2025" -> [status |-> 404, message |-> MsgNotFound]
      [] OTHER                -> [status |-> 500, message |-> MsgPrismaUnknown]

formatValidationErrors(error) == [status |-> error.status, error |-> error.error]

\* the value thrown by throwError(status, message)
throwError(status, message) ==
    ErrorValue("object", TRUE, JsNumber(status), JsMessageObject(message),
               <<>>, "", FALSE, JsUndefined)

----------------------------------------------------------------------------
(* Side effects of handleError *)

ReqMethod == "POST"
ReqUrl    == "/api/users"

LogEvent(type, message, errorMessage) ==
    [ev |-> "log", label |-> type,
     text |-> <<"Method:", ReqMethod, "Path:", ReqUrl, type, ":">> \o TemplateString(message)
              \o (IF Truthy(errorMessage) THEN <<"|">> \o TemplateString(errorMessage) ELSE <<>>),
     status |-> JsUndefined, body |-> JsUndefined]

ResponseEvent(status, error) ==
    [ev |-> "response", label |-> "", text |-> <<>>, status |-> status, body |-> error]

\* logError(type, req, message, errorMessage): one write to the log
logError(trace, type, message, errorMessage) ==
    Append(trace, LogEvent(type, message, errorMessage))

\* res.status(status) stores the code unchecked; writing the head of the response
\* throws ERR_HTTP_INVALID_STATUS_CODE unless it is an integer in 100..999
ValidStatusCode(status) ==
    status.tag = "number" /\ status.num >= 100 /\ status.num <= 999

\* res.json(body) serialises the body before anything is written
SendThrows(status, error) == StringifyThrows(error) \/ ~ValidStatusCode(status)

\* sendErrorResponse(res, status, error) when it does not throw: one response write
sendErrorResponse(trace, status, error) ==
    Append(trace, ResponseEvent(status, error))

\* The branch of handleError a value takes (the if / else-if chain, first match wins)
ValidationGuard(e) == TypeofObject(e) /\ ~IsNull(e) /\ StatusIn(e)

Classify(e) ==
    IF InstanceOfPrismaKnown(e) THEN "prisma"
    ELSE IF ValidationGuard(e) THEN "validation"
    ELSE IF InstanceOfError(e) THEN "server"
    ELSE "unknown"

\* Outcome of one call handleError(error, req, res, errorMessage):
\* the side effects in order and whether the call threw instead of returning.
handleError(error, errorMessage) ==
    LET branch == Classify(error) IN
    CASE branch = "prisma" ->
            LET errorPrisma == getPrismaErrorMessage(error)
                logged == logError(<<>>, "Erreur Prisma", JsString(errorPrisma.message), errorMessage)
            IN  [branch |-> branch, threw |-> FALSE,
                 trace |-> sendErrorResponse(logged, JsNumber(errorPrisma.status),
                                             JsString(errorPrisma.message))]
      [] branch = "validation" ->
            LET validationError == formatValidationErrors(error) IN
            IF StringifyThrows(validationError.error)
            THEN [branch |-> branch, threw |-> TRUE, trace |-> <<>>]
            ELSE LET logged == logError(<<>>, "Erreur de validation",
                                        JsonStringify(validationError.error), errorMessage)
                 IN  IF SendThrows(validationError.status, validationError.error)
                     THEN [branch |-> branch, threw |-> TRUE, trace |-> logged]
                     ELSE [branch |-> branch, threw |-> FALSE,
                           trace |-> sendErrorResponse(logged, validationError.status,
                                                       validationError.error)]
      [] branch = "server" ->
            LET logged == logError(<<>>, "Erreur serveur", JsString(error.message), errorMessage)
            IN  [branch |-> branch, threw |-> FALSE,
                 trace |-> sendErrorResponse(logged, JsNumber(500), JsString(error.message))]
      [] OTHER ->
            LET logged == logError(<<>>, "Erreur inconnue", JsString(MsgUnknown), errorMessage)
            IN  [branch |-> branch, threw |-> FALSE,
                 trace |-> sendErrorResponse(logged, JsNumber(500), JsString(MsgUnknown))]

----------------------------------------------------------------------------
(* The values handed to handleError *)

\* longest field-error sequence a validation error carries
MaxFields == 2

FieldEntries ==
    { [field |-> "email", message |-> "The email field must be a valid email address"],
      [field |-> "password", message |-> "The password field must have at least 8 characters"] }

RECURSIVE SeqsUpTo(_, _)
SeqsUpTo(S, n) ==
    IF n = 0 THEN { <<>> }
    ELSE LET shorter == SeqsUpTo(S, n - 1)
         IN  shorter \cup { Append(q, x) : q \in { r \in shorter : Len(r) = n - 1 }, x \in S }

\* value.status: HTTP codes, a number that is no HTTP code, a string, undefined
StatusValues ==
    { JsNumber(400), JsNumber(422), JsNumber(0), JsString(<<"error">>), JsUndefined }

\* value.error
ErrorProps ==
    { JsFieldArray(a) : a \in SeqsUpTo(FieldEntries, MaxFields) }
        \cup { JsUndefined, JsString(<<"Bad", "request">>),
               JsMessageObject(<<"Utilisateur", "introuvable">>), JsCircular }

ErrorMessages == { <<"boom">>, <<"Cannot read properties of undefined">> }

PrismaCodes == { "P2002", "P2003", "P2025", "P2000", "P2034" }

\* meta.target as the engine reports it: absent, empty, a constraint name,
\* or the non-empty list of the fields of the violated constraint
TargetValues ==
    { JsUndefined, JsString(<<>>), JsString(<<"User_email_key">>),
      JsStrArray(<<"email">>), JsStrArray(<<"email", "name">>) }

PrismaKnownErrors ==
    { ErrorValue("PrismaKnown", hs, IF hs THEN JsNumber(400) ELSE JsUndefined, JsUndefined,
                 RawStorageText, c, hm, IF hm THEN t ELSE JsUndefined) :
        hs \in BOOLEAN, c \in PrismaCodes, hm \in BOOLEAN, t \in TargetValues }

PrismaOtherErrors ==
    { ErrorValue("PrismaOther", FALSE, JsUndefined, JsUndefined, RawStorageText, "", FALSE, JsUndefined) }

StatusBearing(cls, message) ==
    { ErrorValue(cls, TRUE, st, er, message, "", FALSE, JsUndefined) :
        st \in StatusValues, er \in ErrorProps }

StatusFree(cls, message) ==
    { ErrorValue(cls, FALSE, JsUndefined, er, message, "", FALSE, JsUndefined) : er \in ErrorProps }

NativeErrors ==
    UNION { StatusBearing("Error", m) \cup StatusFree("Error", m) : m \in ErrorMessages }

PlainObjects == StatusBearing("object", <<>>) \cup StatusFree("object", <<>>)

ThrownByThrowError ==
    { throwError(st, m) : st \in {403, 404}, m \in { <<"Utilisateur", "introuvable">> } }

Primitives ==
    { ErrorValue(cls, FALSE, JsUndefined, JsUndefined, <<>>, "", FALSE, JsUndefined) :
        cls \in {"string", "number", "null"} }

ErrorInputs ==
    PrismaKnownErrors \cup PrismaOtherErrors \cup NativeErrors \cup PlainObjects
        \cup ThrownByThrowError \cup Primitives

DiagInputs == { JsUndefined, JsString(<<"createUser">>) }

----------------------------------------------------------------------------
(* The middleware chain of configureMiddleware *)

\* the app.use(...) calls in registration order; Express runs its stack in this order
StageOrderSanitizeFirst ==
    <<"json", "cors", "helmet", "compression", "sanitize", "limiter", "log">>

StageOrder ==
    <<"json", "cors", "helmet", "compression", "limiter", "sanitize", "log">>

\* createRateLimiter(windowMinutes, max): a fixed window of windowMinutes per client
\* identity, at most max requests in it, status 429 beyond
createRateLimiter(windowMinutes, max) ==
    [windowMs |-> windowMinutes * 60 * 1000, max |-> max, statusCode |-> 429]

limiterWithCap99 == createRateLimiter(15, 99)

\* const limiter = createRateLimiter(15, 100)
limiter == createRateLimiter(15, 100)

\* clients, by the address the trusted-proxy setting resolves
Identities == { "10.0.0.1", "10.0.0.2" }

\* requests the limiter counts per identity before the model stops sending more
MaxHits == 102

\* requests in flight through the chain at the same time
MaxRequests == 2

Requests == 1..MaxRequests

RequestProfiles ==
    { [method |-> "POST",    ext |-> "",    bodyOk |-> TRUE,  xNoCompression |-> FALSE],
      [method |-> "POST",    ext |-> "",    bodyOk |-> FALSE, xNoCompression |-> FALSE],
      [method |-> "OPTIONS", ext |-> "",    bodyOk |-> TRUE,  xNoCompression |-> FALSE],
      [method |-> "GET",     ext |-> "PNG", bodyOk |-> TRUE,  xNoCompression |-> FALSE],
      [method |-> "GET",     ext |-> "",    bodyOk |-> TRUE,  xNoCompression |-> TRUE] }

NoProfile == [method |-> "", ext |-> "", bodyOk |-> TRUE, xNoCompression |-> FALSE]

\* the /i flag of the path pattern
LowerCase(ext) ==
    CASE ext = "PNG" -> "png"
      [] ext = "PDF" -> "pdf"
      [] OTHER       -> ext

MediaExtensions == { "jpg", "jpeg", "png", "gif", "pdf", "svg", "mp4" }

\* the filter option of compression(...)
compressionFilter(req) ==
    IF req.xNoCompression THEN FALSE
    ELSE LowerCase(req.ext) \notin MediaExtensions

\* a request that has not arrived yet
NewRequest ==
    [state |-> "new", id |-> "", profile |-> NoProfile, next |-> 1, ran |-> <<>>,
     termAt |-> 0, status |-> 0, compress |-> FALSE, handlerRan |-> FALSE]

\* the limiter's decision for one more request of `id`: hits are counted first,
\* the request is allowed while the count does not exceed max
LimiterAllows(lim, count) == count <= lim.max

NoCheck == [id |-> "", ordinal |-> 0, allowed |-> TRUE, status |-> 0]

----------------------------------------------------------------------------
(* State before any request *)

Init ==
    /\ hPhase = "idle"
    /\ hErr = NoError
    /\ hDiag = JsUndefined
    /\ hBranch = "none"
    /\ hTrace = <<>>
    /\ reqs = [r \in Requests |-> NewRequest]
    /\ hits = [i \in Identities |-> 0]
    /\ seen = [i \in Identities |-> 0]
    /\ lastCheck = NoCheck
    /\ sigPc = <<>>
    /\ listening = TRUE
    /\ closing = FALSE
    /\ connected = FALSE
    /\ inflight = 0
    /\ exited = FALSE
    /\ lateAccept = FALSE

----------------------------------------------------------------------------
(* The error translator *)

\* A handler catches `error` and calls handleError(error, req, res, errorMessage)
HandleError(error, errorMessage) ==
    /\ hPhase = "idle"
    /\ LET out == handleError(error, errorMessage) IN
        /\ hPhase' = IF out.threw THEN "threw" ELSE "returned"
        /\ hBranch' = out.branch
        /\ hTrace' = out.trace
    /\ hErr' = error
    /\ hDiag' = errorMessage
    /\ UNCHANGED <<pipelineVars, serverVars>>

\* The next failing request: a fresh req / res pair
NextFailure ==
    /\ hPhase # "idle"
    /\ hPhase' = "idle"
    /\ hErr' = NoError
    /\ hDiag' = JsUndefined
    /\ hBranch' = "none"
    /\ hTrace' = <<>>
    /\ UNCHANGED <<pipelineVars, serverVars>>

NextTranslate ==
    \/ \E e \in ErrorInputs, d \in DiagInputs : HandleError(e, d)
    \/ NextFailure

SpecTranslate == Init /\ [][NextTranslate]_vars

Responses == SelectSeq(hTrace, LAMBDA ev : ev.ev = "response")
Handled   == hPhase # "idle"

\* the shape {status, error: [{field, message}, ...]} of a validation error
ValidationShape(e) ==
    /\ e.cls \in {"object", "Error", "PrismaOther"}
    /\ e.hasStatus
    /\ e.error.tag = "fieldarray"

\* C1: a native runtime error (an Error that is not a storage-engine known error),
\* whatever else it carries, is answered with status 500 and its own message.
C1_NativeErrorIs500WithOwnMessage ==
    (Handled /\ InstanceOfError(hErr) /\ ~InstanceOfPrismaKnown(hErr))
        => /\ hPhase = "returned"
           /\ Responses = <<ResponseEvent(JsNumber(500), JsString(hErr.message))>>

\* C2: only values of the shape {status, error: [{field, message}]} are treated as
\* validation errors; every other value that is neither a storage-engine known error
\* nor a native Error gets status 500 and the fixed text 'Erreur serveur inconnue'.
C2_OtherShapesGetGeneric500 ==
    /\ (Handled /\ hBranch = "validation") => ValidationShape(hErr)
    /\ (Handled /\ ~InstanceOfPrismaKnown(hErr) /\ ~InstanceOfError(hErr)
            /\ ~ValidationShape(hErr))
        => /\ hPhase = "returned"
           /\ Responses = <<ResponseEvent(JsNumber(500), JsString(MsgUnknown))>>

\* the field names the engine reports for the violated unique constraint
TargetNames(e) ==
    LET t == MetaTarget(e) IN
    CASE t.tag = "string"   -> IF t.str = <<>> THEN {} ELSE { t.str[i] : i \in 1..Len(t.str) }
      [] t.tag = "strarray" -> { t.str[i] : i \in 1..Len(t.str) }
      [] OTHER              -> {}

C4_EnvelopeErrorIsStringOrFieldSequence ==
    Handled => \A i \in 1..Len(Responses) :
        /\ Responses[i].body.tag \in {"string", "fieldarray"}
        /\ hBranch \in {"prisma", "server", "unknown"} => Responses[i].body.tag = "string"
        /\ hBranch = "validation" => Responses[i].body.tag = "fieldarray"

TranslatedMessages == { MsgForeignKey, MsgNotFound, MsgPrismaUnknown, MsgUnknown }

IsTranslatedMessage(s) ==
    \/ s \in TranslatedMessages
    \/ Len(s) >= 3 /\ s[1] = "Erreur : le champ"
         /\ s[Len(s)] = "doit être unique. La valeur fournie est déjà utilisée."

\* C5: for every error that originates in the persistence layer (a known request
\* error or any other Error of the persistence layer), the `error` sent to the client
\* is one of the fixed translated messages, never the persistence layer's own text.
C5_NoRawStorageText ==
    (Handled /\ hErr.cls \in {"PrismaKnown", "PrismaOther"})
        => \A i \in 1..Len(Responses) :
              /\ Responses[i].body.tag = "string"
              /\ IsTranslatedMessage(Responses[i].body.str)
              /\ Responses[i].body.str # hErr.message
              /\ \A k \in 1..Len(RawStorageText) :
                    ~Contains(Responses[i].body.str, RawStorageText[k])

\* C6: one invocation of handleError takes exactly one of its four branches, writes
\* its log before its response, writes exactly one response and returns (no throw).
C6_OneLogThenOneResponseNoThrow ==
    Handled
        => /\ hPhase = "returned"
           /\ hBranch \in {"prisma", "validation", "server", "unknown"}
           /\ Len(hTrace) = 2
           /\ hTrace[1].ev = "log"
           /\ hTrace[2].ev = "response"

----------------------------------------------------------------------------
(* The middleware chain at work *)

StageIs(r, name) ==
    /\ reqs[r].state = "pipeline"
    /\ reqs[r].next <= Len(StageOrder)
    /\ StageOrder[reqs[r].next] = name

\* the stage calls next(): control goes to the next entry of the stack, or to the
\* route handler after the last one
Pass(q, name) ==
    [q EXCEPT !.ran = Append(@, name),
              !.next = @ + 1,
              !.state = IF q.next = Len(StageOrder) THEN "handler" ELSE "pipeline"]

\* the stage ends the request with a response of its own and never calls next()
Terminate(q, name, status) ==
    [q EXCEPT !.ran = Append(@, name),
              !.state = "terminated",
              !.termAt = Len(q.ran) + 1,
              !.status = status,
              !.compress = ("compression" \in { q.ran[i] : i \in 1..Len(q.ran) })
                              /\ compressionFilter(q.profile)]

\* a request reaches the application
Arrive(r, id, profile) ==
    /\ reqs[r].state = "new"
    /\ reqs' = [reqs EXCEPT ![r] = [NewRequest EXCEPT !.state = "pipeline", !.id = id,
                                                       !.profile = profile]]
    /\ UNCHANGED <<hits, seen, lastCheck, translatorVars, serverVars>>

\* express.json(): a malformed body goes to the error path (400), skipping the chain
JsonStage(r) ==
    /\ StageIs(r, "json")
    /\ reqs' = [reqs EXCEPT ![r] = IF reqs[r].profile.bodyOk THEN Pass(@, "json")
                                   ELSE Terminate(@, "json", 400)]
    /\ UNCHANGED <<hits, seen, lastCheck, translatorVars, serverVars>>

\* cors(): a preflight request is answered 204 by the stage itself
CorsStage(r) ==
    /\ StageIs(r, "cors")
    /\ reqs' = [reqs EXCEPT ![r] = IF reqs[r].profile.method = "OPTIONS"
                                   THEN Terminate(@, "cors", 204)
                                   ELSE Pass(@, "cors")]
    /\ UNCHANGED <<hits, seen, lastCheck, translatorVars, serverVars>>

\* helmet(): sets headers
HelmetStage(r) ==
    /\ StageIs(r, "helmet")
    /\ reqs' = [reqs EXCEPT ![r] = Pass(@, "helmet")]
    /\ UNCHANGED <<hits, seen, lastCheck, translatorVars, serverVars>>

\* compression({threshold, filter}): wraps the response, decides when it is written
CompressionStage(r) ==
    /\ StageIs(r, "compression")
    /\ reqs' = [reqs EXCEPT ![r] = Pass(@, "compression")]
    /\ UNCHANGED <<hits, seen, lastCheck, translatorVars, serverVars>>

\* the limiter counts one more request of the identity and decides
CountRequest(id) ==
    LET count == hits[id] + 1 IN
    /\ hits[id] < MaxHits
    /\ hits' = [hits EXCEPT ![id] = count]
    /\ seen' = [seen EXCEPT ![id] = @ + 1]
    /\ lastCheck' = [id |-> id, ordinal |-> seen[id] + 1,
                     allowed |-> LimiterAllows(limiter, count),
                     status |-> IF LimiterAllows(limiter, count) THEN 0
                                ELSE limiter.statusCode]

\* app.use(limiter)
LimiterStage(r) ==
    /\ StageIs(r, "limiter")
    /\ CountRequest(reqs[r].id)
    /\ reqs' = [reqs EXCEPT ![r] = IF LimiterAllows(limiter, hits[reqs[r].id] + 1)
                                   THEN Pass(@, "limiter")
                                   ELSE Terminate(@, "limiter", limiter.statusCode)]
    /\ UNCHANGED <<translatorVars, serverVars>>

\* app.use(sanitizeRequestData): rewrites the payload, passes on
SanitizeStage(r) ==
    /\ StageIs(r, "sanitize")
    /\ reqs' = [reqs EXCEPT ![r] = Pass(@, "sanitize")]
    /\ UNCHANGED <<hits, seen, lastCheck, translatorVars, serverVars>>

\* rotateLog(); requestLog(req, res, next); logger.info(...)
LogStage(r) ==
    /\ StageIs(r, "log")
    /\ reqs' = [reqs EXCEPT ![r] = Pass(@, "log")]
    /\ UNCHANGED <<hits, seen, lastCheck, translatorVars, serverVars>>

\* the route handler answers the request
RouteHandler(r) ==
    /\ reqs[r].state = "handler"
    /\ reqs' = [reqs EXCEPT ![r] = [reqs[r] EXCEPT !.state = "done", !.handlerRan = TRUE,
                                                   !.status = 200,
                                                   !.compress = compressionFilter(reqs[r].profile)]]
    /\ UNCHANGED <<hits, seen, lastCheck, translatorVars, serverVars>>

\* the window of an identity elapses (windowMs after its first counted request)
WindowElapse(id) ==
    /\ hits[id] > 0
    /\ hits' = [hits EXCEPT ![id] = 0]
    /\ seen' = [seen EXCEPT ![id] = 0]
    /\ UNCHANGED <<reqs, lastCheck, translatorVars, serverVars>>

\* The chain is observed from any load of the limiter up to its cap
InitPipeline ==
    /\ hPhase = "idle" /\ hErr = NoError /\ hDiag = JsUndefined
    /\ hBranch = "none" /\ hTrace = <<>>
    /\ reqs = [r \in Requests |-> NewRequest]
    /\ \E h \in [Identities -> {0, limiter.max - 1}] : hits = h /\ seen = h
    /\ lastCheck = NoCheck
    /\ sigPc = <<>> /\ listening = TRUE /\ closing = FALSE /\ connected = FALSE
    /\ inflight = 0 /\ exited = FALSE /\ lateAccept = FALSE

NextPipeline ==
    \/ \E r \in Requests, id \in Identities, p \in RequestProfiles : Arrive(r, id, p)
    \/ \E r \in Requests : JsonStage(r)
    \/ \E r \in Requests : CorsStage(r)
    \/ \E r \in Requests : HelmetStage(r)
    \/ \E r \in Requests : CompressionStage(r)
    \/ \E r \in Requests : LimiterStage(r)
    \/ \E r \in Requests : SanitizeStage(r)
    \/ \E r \in Requests : LogStage(r)
    \/ \E r \in Requests : RouteHandler(r)

SpecPipeline == InitPipeline /\ [][NextPipeline]_vars

IsPrefix(a, b) == Len(a) <= Len(b) /\ \A i \in 1..Len(a) : a[i] = b[i]

\* the order the stages are documented to run in
DocumentedOrder ==
    <<"json", "cors", "helmet", "compression", "limiter", "sanitize", "log">>

\* C7: for every request the stages run in the one fixed order body parsing, cross-origin
\* check, security headers, compression decision, rate limiting, sanitization, logging;
\* the stages that ran are a prefix of that order; after a stage terminated the request
\* no later stage and no route handler runs; the handler runs only after all stages passed.
C7_FixedOrderPrefixAndNoRunAfterTermination ==
    \A r \in Requests :
        LET q == reqs[r] IN
        /\ IsPrefix(q.ran, DocumentedOrder)
        /\ q.state \in {"handler", "done"} => q.ran = DocumentedOrder
        /\ q.handlerRan => q.ran = DocumentedOrder /\ q.state = "done"
        /\ q.state = "terminated" => ~q.handlerRan /\ Len(q.ran) = q.termAt
                                        /\ q.ran # DocumentedOrder

\* C7 witness: one request was answered 429 by the rate limiter after exactly the first
\* five stages, another one went through all seven stages and its handler ran
C7_Witness ==
    \E r1, r2 \in Requests :
        /\ reqs[r1].state = "terminated" /\ reqs[r1].status = 429
        /\ reqs[r1].ran = <<"json", "cors", "helmet", "compression", "limiter">>
        /\ reqs[r2].state = "done" /\ reqs[r2].handlerRan
        /\ reqs[r2].ran = DocumentedOrder

----------------------------------------------------------------------------
(* The rate limiter under load *)

\* one request of `id` reaches the limiter
LimiterCheck(id) ==
    /\ CountRequest(id)
    /\ UNCHANGED <<reqs, translatorVars, serverVars>>

NextRate ==
    \/ \E id \in Identities : LimiterCheck(id)
    \/ \E id \in Identities : WindowElapse(id)

SpecRate == Init /\ [][NextRate]_vars

\* C8: with the 15-minute / 100-request policy, over any interleaving of identities,
\* the Nth request of an identity within its window is allowed for N <= 100 and denied
\* with 429 for N > 100, whatever the other identities have sent; the count of an
\* identity starts again from zero when its window has elapsed.
C8_RateLimitPerIdentity ==
    /\ limiter.windowMs = 15 * 60 * 1000
    /\ lastCheck.id # "" =>
          /\ lastCheck.ordinal <= 100 => lastCheck.allowed /\ lastCheck.status = 0
          /\ lastCheck.ordinal > 100 => ~lastCheck.allowed /\ lastCheck.status = 429
    /\ \A id \in Identities : hits[id] = seen[id]

\* C8 witness: request 101 of one identity was denied with 429 while the other
\* identity, itself at its 100th request, is still allowed
C8_Witness ==
    /\ lastCheck.id = "10.0.0.1" /\ lastCheck.ordinal = 101
    /\ ~lastCheck.allowed /\ lastCheck.status = 429
    /\ hits["10.0.0.2"] = 100

----------------------------------------------------------------------------
(* Server start and SIGINT shutdown *)

\* requests the server handles at the same time
MaxInflight == 2

\* SIGINT signals delivered to the process
MaxSignals == 2

ShutdownBegun == Len(sigPc) > 0

\* the listening server accepts a request
Accept ==
    /\ ~exited
    /\ listening
    /\ inflight < MaxInflight
    /\ inflight' = inflight + 1
    /\ lateAccept' = (lateAccept \/ ShutdownBegun)
    /\ UNCHANGED <<sigPc, listening, closing, connected, exited, translatorVars, pipelineVars>>

\* a route handler queries the database through bdd; the client connects on demand,
\* also after an earlier $disconnect()
Query ==
    /\ ~exited
    /\ inflight > 0
    /\ connected' = TRUE
    /\ UNCHANGED <<sigPc, listening, closing, inflight, exited, lateAccept,
                   translatorVars, pipelineVars>>

\* the response of a request is finished
Complete ==
    /\ ~exited
    /\ inflight > 0
    /\ inflight' = inflight - 1
    /\ UNCHANGED <<sigPc, listening, closing, connected, exited, lateAccept,
                   translatorVars, pipelineVars>>

\* process.on('SIGINT', async () => { console.log(...); await bdd.$disconnect(); ...
Sigint ==
    /\ ~exited
    /\ Len(sigPc) < MaxSignals
    /\ sigPc' = Append(sigPc, "disconnecting")
    /\ UNCHANGED <<listening, closing, connected, inflight, exited, lateAccept,
                   translatorVars, pipelineVars>>

\* bdd.$disconnect() releases the connection and its promise resolves
DisconnectDone(k) ==
    /\ ~exited
    /\ k \in 1..Len(sigPc)
    /\ sigPc[k] = "disconnecting"
    /\ connected' = FALSE
    /\ sigPc' = [sigPc EXCEPT ![k] = "disconnected"]
    /\ UNCHANGED <<listening, closing, inflight, exited, lateAccept,
                   translatorVars, pipelineVars>>

\* ... server.close(() => { console.log(...); process.exit(0); }); })
\* the server stops listening; the callback waits for the 'close' event
ServerClose(k) ==
    /\ ~exited
    /\ k \in 1..Len(sigPc)
    /\ sigPc[k] = "disconnected"
    /\ listening' = FALSE
    /\ closing' = TRUE
    /\ sigPc' = [sigPc EXCEPT ![k] = "closeCalled"]
    /\ UNCHANGED <<connected, inflight, exited, lateAccept, translatorVars, pipelineVars>>

\* 'close' is emitted once no request is left; the callback runs process.exit(0)
CloseCallback ==
    /\ ~exited
    /\ closing
    /\ inflight = 0
    /\ exited' = TRUE
    /\ UNCHANGED <<sigPc, listening, closing, connected, inflight, lateAccept,
                   translatorVars, pipelineVars>>

NextShutdown ==
    \/ Accept
    \/ Query
    \/ Complete
    \/ Sigint
    \/ \E k \in 1..MaxSignals : DisconnectDone(k)
    \/ \E k \in 1..MaxSignals : ServerClose(k)
    \/ CloseCallback

SpecShutdown == Init /\ [][NextShutdown]_vars

\* C9: once the SIGINT handler has started, the server accepts no new request,
\* also not while the handler waits for the disconnect of the persistence layer.
C9_NoAcceptAfterShutdownBegan == ~lateAccept

\* C10: process.exit is reached only when no request is still being handled and the
\* connection of the persistence layer has been released.
C10_ExitOnlyWhenDrainedAndDisconnected ==
    exited => inflight = 0 /\ ~connected

====
